---- MODULE Spec2Model ----
(***************************************************************************)
(* Server actions of src/src/actions/actions.ts: the users table, the      *)
(* profile and tweet scrapers, the email vendor call and the unlock        *)
(* workflow.  Every `await` of a handler is one atomic step, so concurrent *)
(* calls interleave at exactly the points where the JavaScript event loop  *)
(* can switch between them.                                                *)
(***************************************************************************)
EXTENDS Integers, Sequences, FiniteSets, TLC

\* Number of concurrent request slots, and calls started over a run.
NumProcs == 2
MaxCalls == 3

Procs == 1..NumProcs
\* The detached unlockUser promise that slot p's unlockGeneration starts.
Child(p) == p + NumProcs
Tasks == 1..(2 * NumProcs)

\* JavaScript null / undefined of a string-valued place.
Null == "<null>"

\* Strings are sequences of characters, so that case folding and
\* String.replace are computed, not assumed.
LowerChar(c) == IF c = "A" THEN "a" ELSE IF c = "B" THEN "b" ELSE c
toLowerCase(s) == [i \in DOMAIN s |-> LowerChar(s[i])]

\* username.replace('/', ''): removes the first '/' only.
replaceSlash(s) ==
  IF \E i \in DOMAIN s : s[i] = "/"
  THEN LET k == CHOOSE i \in DOMAIN s :
                  s[i] = "/" /\ \A j \in 1..(i - 1) : s[j] # "/"
       IN  SubSeq(s, 1, k - 1) \o SubSeq(s, k + 1, Len(s))
  ELSE s

\* `/${username}`
Path(username) == <<"/">> \o username

\* The accounts the scraping vendor knows, as it spells them (profile.userName).
Handles == {<<"A">>, <<"b">>}
\* Usernames callers type: an account in another case than the vendor's, an
\* account as the vendor spells it, and a name nobody holds.
Typed == {<<"a">>, <<"b">>, <<"c">>}
\* unlockGeneration is also handed the page's path.
Usernames == Typed \cup {<<"/", "a">>}
UnlockTypes == {"email", "stripe", "free"}
\* Tweet lists the tweet scraper can return (an empty list is truthy too).
Posts == {"tweetsX", "tweetsY"}

VARIABLES
  rows,         \* the users table: a sequence of records
  calls,        \* per task: the running call's position and locals
  last,         \* the call that returned last: its arguments, what it did, its result
  ncalls,       \* calls started so far
  exhausted     \* usernames of the records a processScrapedUser call has left
                \* started and not completed by returning after two failed attempts

vars == <<rows, calls, last, ncalls, exhausted>>

----------------------------------------------------------------------------
\* Results of a call.
NoRet == [kind |-> "none", success |-> FALSE, error |-> Null, path |-> <<>>,
          tweets |-> Null, user |-> <<>>]
RetUndefined == [NoRet EXCEPT !.kind = "undefined"]
RetRedirect(p) == [NoRet EXCEPT !.kind = "redirect", !.path = p]
RetThrow(msg) == [NoRet EXCEPT !.kind = "throw", !.error = msg]
RetError(msg) == [NoRet EXCEPT !.kind = "value", !.error = msg]
RetSuccess == [NoRet EXCEPT !.kind = "value", !.success = TRUE]
RetFailure(msg) == [NoRet EXCEPT !.kind = "value", !.success = FALSE, !.error = msg]
RetTweets(t) == [NoRet EXCEPT !.kind = "value", !.tweets = t]
RetUser(u) == [NoRet EXCEPT !.kind = "value", !.user = <<u>>]

IdleCall == [op |-> "none", pc |-> "idle", username |-> <<>>, unlockType |-> Null,
             user |-> <<>>, data |-> <<>>, tweets |-> Null, error |-> Null,
             attempts |-> <<>>, resp |-> Null, writes |-> 0, scrapes |-> 0,
             detached |-> FALSE, prior |-> Null, revalidated |-> <<>>,
             after |-> {},
             ret |-> NoRet]

Finished(c) == c.pc = "idle"

----------------------------------------------------------------------------
\* The User Store.

\* A lookup that compares the username as typed, case and all.
getUserExact(username) ==
  LET hits == {i \in DOMAIN rows : rows[i].username = username}
  IN  IF hits = {} THEN {<<>>} ELSE {<<rows[i]>> : i \in hits}

\* A lookup whose where clause is lost: any row is the first one.
getUserAny(username) ==
  IF rows = <<>> THEN {<<>>} ELSE {<<rows[i]>> : i \in DOMAIN rows}

\* getUser: findFirst where LOWER(username) = username.toLowerCase().  No
\* ORDER BY is given, so any matching row may be the first one.
getUser(username) ==
  LET hits == {i \in DOMAIN rows : toLowerCase(rows[i].username) = toLowerCase(username)}
  IN  IF hits = {} THEN {<<>>} ELSE {<<rows[i]>> : i \in hits}

\* insertUser: db.insert(users).values(user)
insertUser(user) == Append(rows, user)

\* updateUser's guard: !user.username
updateUserThrows(user) == user.username = <<>>

\* An update with upsert semantics: a record matching no row is inserted.
updateUserUpsert(user) ==
  IF \E i \in DOMAIN rows : rows[i].username = user.username
  THEN [i \in DOMAIN rows |-> IF rows[i].username = user.username THEN user ELSE rows[i]]
  ELSE Append(rows, user)

\* updateUser: db.update(users).set(user).where(eq(users.username, user.username));
\* every column of every row with exactly that username is set from `user`.
updateUser(user) ==
  [i \in DOMAIN rows |-> IF rows[i].username = user.username THEN user ELSE rows[i]]

----------------------------------------------------------------------------
\* JavaScript truthiness of a string-or-null value.
Truthy(x) == x # Null /\ x # ""

\* a || b
orElse(a, b) == IF Truthy(a) THEN a ELSE b

\* JSON.stringify of null, or of an Error object (no enumerable own fields).
JSONstringify(e) == IF e = Null THEN "null" ELSE "{}"

\* An inserted record on which profileScraped is left at its initial value.
NewUserUnscraped(data) ==
  [username |-> data.username, profileScraped |-> FALSE, error |-> Null,
   tweetScrapeStarted |-> FALSE, tweetScrapeCompleted |-> FALSE, tweets |-> Null,
   unlocked |-> FALSE, unlockType |-> Null]

\* The record handleNewUsername inserts: the scraped profile, profileScraped
\* and error set by the handler, every other column at its initial value.
NewUser(data) ==
  [username |-> data.username, profileScraped |-> TRUE, error |-> Null,
   tweetScrapeStarted |-> FALSE, tweetScrapeCompleted |-> FALSE, tweets |-> Null,
   unlocked |-> FALSE, unlockType |-> Null]

\* scrapeProfile: a draft record and no error, or no data and the message of
\* the caught error (a failed run, an empty dataset, a client error); the
\* messages the handler builds and the client's are not empty.
scrapeProfile(username) ==
  {[data |-> <<[username |-> h]>>, error |-> Null] :
      h \in {x \in Handles : toLowerCase(x) = toLowerCase(username)}}
  \cup {[data |-> <<>>, error |-> m] : m \in {"Scraping Error: failed", "No profile found"}}

\* scrapeTweets: the dataset's items and no error, or no data and the caught error.
scrapeTweets(username) ==
  {[data |-> t, error |-> Null] : t \in Posts}
  \cup {[data |-> Null, error |-> "ApifyError"]}

\* The email vendor's answers to the contact-create request.
Responses ==
  {[throws |-> TRUE, ok |-> FALSE, message |-> "fetch failed", statusText |-> ""],
   [throws |-> FALSE, ok |-> TRUE, message |-> Null, statusText |-> "OK"]}
  \cup {[throws |-> FALSE, ok |-> FALSE, message |-> m, statusText |-> "Bad Request"] :
          m \in {Null, "Invalid email"}}

RespKind(r) == IF r.throws THEN "throws" ELSE IF r.ok THEN "ok" ELSE "nonok"

\* A status check like createLoopsContact's: only a thrown exception fails.
responseFailsOnThrow(r) == r.throws

\* unlockGeneration's try block fails: fetch or response.json() threw, or !response.ok.
responseFails(r) == r.throws \/ ~r.ok

\* The message unlockGeneration's catch returns.
responseError(r) == IF r.throws THEN r.message ELSE orElse(r.message, r.statusText)

\* An unlock that keeps the channel of a record already unlocked.
updatedUserKeepType(user, unlockType) ==
  IF user.unlocked THEN user
  ELSE [user EXCEPT !.unlocked = TRUE, !.unlockType = unlockType]

\* unlockUser's updatedUser.
updatedUser(user, unlockType) ==
  [user EXCEPT !.unlocked = TRUE, !.unlockType = unlockType]

\* A call that has returned: its locals are gone; its arguments, its result
\* and the record of what it did remain.
Done(c, ret) ==
  [c EXCEPT !.pc = "done", !.ret = ret, !.user = <<>>, !.data = <<>>,
            !.tweets = Null, !.error = Null, !.after = {}]

----------------------------------------------------------------------------
Init ==
  /\ rows = <<>>
  /\ calls = [t \in Tasks |-> IdleCall]
  /\ last = IdleCall
  /\ ncalls = 0
  /\ exhausted = {}

\* Slot p runs no call, and neither does a promise it detached.
Free(p) == Finished(calls[p]) /\ Finished(calls[Child(p)])

\* A caller invokes an exported handler; the request runs in the first free
\* slot (slots are interchangeable).
Start(p, op, pc, username, unlockType) ==
  /\ ncalls < MaxCalls
  /\ Free(p)
  /\ \A q \in 1..(p - 1) : ~Free(q)
  /\ calls' = [calls EXCEPT
                 ![p] = [IdleCall EXCEPT !.op = op, !.pc = pc,
                                         !.username = username,
                                         !.unlockType = unlockType,
                                         !.after = IF op = "processScrapedUser"
                                                   THEN exhausted ELSE {}],
                 ![Child(p)] = IdleCall]
  /\ ncalls' = ncalls + 1
  /\ UNCHANGED <<rows, last, exhausted>>

At(t, op, pc) == calls[t].op = op /\ calls[t].pc = pc

\* Task t goes on as c; a call that has returned frees its slot and leaves
\* its result in `last`.
Resume(t, c) ==
  IF c.pc = "done"
  THEN calls' = [calls EXCEPT ![t] = IdleCall] /\ last' = c
  ELSE calls' = [calls EXCEPT ![t] = c] /\ UNCHANGED last

----------------------------------------------------------------------------
\* handleNewUsername

CallHandleNewUsername(p) ==
  \E u \in Typed : Start(p, "handleNewUsername", "getUser", u, Null)

\* const user = await getUser({ username }); if (user) redirect(`/${username}`)
handleNewUsername_getUser(t) ==
  /\ At(t, "handleNewUsername", "getUser")
  /\ \E user \in getUser(calls[t].username) :
       LET c == calls[t]
       IN  Resume(t, IF user # <<>>
                     THEN Done(c, RetRedirect(Path(c.username)))
                     ELSE [c EXCEPT !.pc = "scrapeProfile"])
  /\ UNCHANGED <<rows, ncalls, exhausted>>

\* const { data, error } = await scrapeProfile({ username }), and the two ifs
\* up to the next await.
handleNewUsername_scrapeProfile(t) ==
  /\ At(t, "handleNewUsername", "scrapeProfile")
  /\ \E r \in scrapeProfile(calls[t].username) :
       LET c == [calls[t] EXCEPT !.data = r.data, !.error = r.error,
                                 !.scrapes = @ + 1]
       IN  Resume(t, IF r.data # <<>> /\ ~Truthy(r.error)
                     THEN [c EXCEPT !.pc = "insertUser"]
                     ELSE IF r.data = <<>> /\ Truthy(r.error)
                          THEN Done(c, RetError(r.error))
                          ELSE Done(c, RetUndefined))
  /\ UNCHANGED <<rows, ncalls, exhausted>>

\* An insert that looks the username up once more and inserts only when the
\* store still has no record for it.
handleNewUsername_insertUserChecked(t) ==
  /\ At(t, "handleNewUsername", "insertUser")
  /\ rows' = IF getUser(calls[t].data[1].username) = {<<>>}
             THEN insertUser(NewUser(calls[t].data[1]))
             ELSE rows
  /\ Resume(t, Done([calls[t] EXCEPT !.writes = @ + 1],
                    RetRedirect(Path(calls[t].data[1].username))))
  /\ UNCHANGED <<ncalls, exhausted>>

\* await insertUser({ user }); redirect(`/${data?.username}`)
handleNewUsername_insertUser(t) ==
  /\ At(t, "handleNewUsername", "insertUser")
  /\ rows' = insertUser(NewUser(calls[t].data[1]))
  /\ Resume(t, Done([calls[t] EXCEPT !.writes = @ + 1],
                    RetRedirect(Path(calls[t].data[1].username))))
  /\ UNCHANGED <<ncalls, exhausted>>

----------------------------------------------------------------------------
\* processScrapedUser

CallProcessScrapedUser(p) ==
  \E u \in Typed : Start(p, "processScrapedUser", "getUser", u, Null)

\* A guard that goes on without marking its copy of the record as started.
processScrapedUser_getUserUnmarked(t) ==
  /\ At(t, "processScrapedUser", "getUser")
  /\ \E user \in getUser(calls[t].username) :
       LET c == calls[t]
       IN  Resume(t, IF user = <<>>
                     THEN Done(c, RetThrow("User not found"))
                     ELSE IF user[1].tweetScrapeStarted
                          THEN Done([c EXCEPT !.user = user], RetUndefined)
                          ELSE [c EXCEPT !.user = user, !.pc = "updateUser"])
  /\ UNCHANGED <<rows, ncalls, exhausted>>

\* A guard that tests the started flag and sets it in the store in one step.
processScrapedUser_getUserAtomic(t) ==
  /\ At(t, "processScrapedUser", "getUser")
  /\ \E user \in getUser(calls[t].username) :
       LET c == calls[t]
       IN  /\ Resume(t, IF user = <<>>
                        THEN Done(c, RetThrow("User not found"))
                        ELSE IF user[1].tweetScrapeStarted
                             THEN Done([c EXCEPT !.user = user], RetUndefined)
                             ELSE [c EXCEPT !.user = <<[user[1] EXCEPT !.tweetScrapeStarted = TRUE]>>,
                                            !.pc = "updateUser"])
           /\ rows' = IF user # <<>> /\ ~user[1].tweetScrapeStarted
                      THEN updateUser([user[1] EXCEPT !.tweetScrapeStarted = TRUE])
                      ELSE rows
  /\ UNCHANGED <<ncalls, exhausted>>

\* let user = await getUser({ username }); the not-found throw; the started
\* guard; user = { ...user, tweetScrapeStarted: true }
processScrapedUser_getUser(t) ==
  /\ At(t, "processScrapedUser", "getUser")
  /\ \E user \in getUser(calls[t].username) :
       LET c == calls[t]
       IN  Resume(t, IF user = <<>>
                     THEN Done(c, RetThrow("User not found"))
                     ELSE IF user[1].tweetScrapeStarted
                          THEN Done([c EXCEPT !.user = user], RetUndefined)
                          ELSE [c EXCEPT !.user = <<[user[1] EXCEPT !.tweetScrapeStarted = TRUE]>>,
                                         !.pc = "updateUser"])
  /\ UNCHANGED <<rows, ncalls, exhausted>>

\* A handler that goes on to the scrape without persisting the started flag.
processScrapedUser_updateUserSkipped(t) ==
  /\ At(t, "processScrapedUser", "updateUser")
  /\ Resume(t, [calls[t] EXCEPT !.pc = "scrapeTweets"])
  /\ UNCHANGED <<rows, ncalls, exhausted>>

\* await updateUser({ user })   (the started flag)
processScrapedUser_updateUser(t) ==
  /\ At(t, "processScrapedUser", "updateUser")
  /\ IF updateUserThrows(calls[t].user[1])
     THEN /\ Resume(t, Done(calls[t], RetThrow("Username is required for updating a user")))
          /\ UNCHANGED rows
     ELSE /\ rows' = updateUser(calls[t].user[1])
          /\ Resume(t, [calls[t] EXCEPT !.pc = "scrapeTweets", !.writes = @ + 1])
  /\ UNCHANGED <<ncalls, exhausted>>

\* The code after the try blocks with tweetScrapeCompleted left unset.
afterScrapeNotCompleted(c) ==
  IF c.tweets # Null /\ ~Truthy(c.error)
  THEN [c EXCEPT !.user = <<[@[1] EXCEPT !.tweets = c.tweets]>>,
                 !.pc = "updateUserFinal"]
  ELSE IF Truthy(c.error)
       THEN [c EXCEPT !.user = <<[@[1] EXCEPT !.error = JSONstringify(c.error)]>>,
                      !.pc = "updateUserFinal"]
       ELSE Done(c, RetUndefined)

\* The code after the try blocks, up to the next await: with tweets and no
\* error the posts are put in `user`; with an error the error is.
afterScrape(c) ==
  IF c.tweets # Null /\ ~Truthy(c.error)
  THEN [c EXCEPT !.user = <<[@[1] EXCEPT !.tweets = c.tweets,
                                          !.tweetScrapeCompleted = TRUE]>>,
                 !.pc = "updateUserFinal"]
  ELSE IF Truthy(c.error)
       THEN [c EXCEPT !.user = <<[@[1] EXCEPT !.error = JSONstringify(c.error)]>>,
                      !.pc = "updateUserFinal"]
       ELSE Done(c, RetUndefined)

\* An inner catch that tries once more instead of returning.
secondFailureRetry(c) ==
  [c EXCEPT !.error = "Error: No tweets found", !.pc = "scrapeTweetsAgain"]

\* The inner catch, when both attempts failed:
\* return { ...user, error: JSON.stringify(e) }.
secondFailure(c) ==
  Done(c, RetUser([c.user[1] EXCEPT !.error = JSONstringify("Error: No tweets found")]))

\* The username, when its stored record stands started and not completed.
leftStarted(username) ==
  IF \E i \in DOMAIN rows :
        /\ rows[i].username = username
        /\ rows[i].tweetScrapeStarted /\ ~rows[i].tweetScrapeCompleted
  THEN {username} ELSE {}

\* First attempt: const res = await scrapeTweets({ username }); without
\* tweets the throw is caught and the second attempt follows.
processScrapedUser_scrapeTweets(t) ==
  /\ At(t, "processScrapedUser", "scrapeTweets")
  /\ \E r \in scrapeTweets(calls[t].username) :
       LET c == [calls[t] EXCEPT !.tweets = r.data, !.error = r.error,
                                 !.attempts = Append(@, r.data),
                                 !.scrapes = @ + 1]
       IN  Resume(t, IF r.data = Null
                     THEN [c EXCEPT !.error = "Error: No tweets found",
                                    !.pc = "scrapeTweetsAgain"]
                     ELSE afterScrape(c))
  /\ UNCHANGED <<rows, ncalls, exhausted>>

\* Second attempt, inside the first catch; without tweets the inner catch returns.
processScrapedUser_scrapeTweetsAgain(t) ==
  /\ At(t, "processScrapedUser", "scrapeTweetsAgain")
  /\ \E r \in scrapeTweets(calls[t].username) :
       LET c == [calls[t] EXCEPT !.tweets = r.data, !.error = r.error,
                                 !.attempts = Append(@, r.data),
                                 !.scrapes = @ + 1]
       IN  /\ Resume(t, IF r.data = Null THEN secondFailure(c) ELSE afterScrape(c))
           /\ exhausted' = IF r.data = Null THEN exhausted \cup leftStarted(c.user[1].username)
                                            ELSE exhausted
  /\ UNCHANGED <<rows, ncalls>>

\* await updateUser({ user }) after the try blocks, and the return.
processScrapedUser_updateUserFinal(t) ==
  /\ At(t, "processScrapedUser", "updateUserFinal")
  /\ IF updateUserThrows(calls[t].user[1])
     THEN /\ Resume(t, Done(calls[t], RetThrow("Username is required for updating a user")))
          /\ UNCHANGED rows
     ELSE /\ rows' = updateUser(calls[t].user[1])
          /\ Resume(t, Done([calls[t] EXCEPT !.writes = @ + 1],
                            IF calls[t].tweets # Null /\ ~Truthy(calls[t].error)
                            THEN RetTweets(calls[t].tweets)
                            ELSE RetUndefined))
  /\ UNCHANGED <<ncalls, exhausted>>

----------------------------------------------------------------------------
\* unlockUser (called by a client, or detached by unlockGeneration)

CallUnlockUser(p) ==
  \E u \in Typed : \E ty \in UnlockTypes : Start(p, "unlockUser", "getUser", u, ty)

\* const user = await getUser({ username }); the not-found throw is caught
\* by the handler's own catch.
unlockUser_getUser(t) ==
  /\ At(t, "unlockUser", "getUser")
  /\ \E user \in getUser(calls[t].username) :
       LET c == calls[t]
       IN  Resume(t, IF user = <<>>
                     THEN Done(c, RetFailure("User not found"))
                     ELSE [c EXCEPT !.user = <<updatedUser(user[1], c.unlockType)>>,
                                    !.prior = user[1].unlockType,
                                    !.pc = "updateUser"])
  /\ UNCHANGED <<rows, ncalls, exhausted>>

\* await updateUser({ user: updatedUser }); return { success: true }
unlockUser_updateUser(t) ==
  /\ At(t, "unlockUser", "updateUser")
  /\ IF updateUserThrows(calls[t].user[1])
     THEN /\ Resume(t, Done(calls[t], RetFailure("Username is required for updating a user")))
          /\ UNCHANGED rows
     ELSE /\ rows' = updateUser(calls[t].user[1])
          /\ Resume(t, Done([calls[t] EXCEPT !.writes = @ + 1], RetSuccess))
  /\ UNCHANGED <<ncalls, exhausted>>

----------------------------------------------------------------------------
\* unlockGeneration

CallUnlockGeneration(p) ==
  \E u \in Usernames : Start(p, "unlockGeneration", "fetch", u, Null)

\* The promise unlockUser({ username: username.replace('/', ''), unlockType:
\* 'email' }) leaves behind: the call is not awaited, so it has run up to its
\* first await when unlockGeneration goes on.
detachedUnlockUser(username) ==
  [IdleCall EXCEPT !.op = "unlockUser", !.pc = "getUser",
                   !.username = replaceSlash(username), !.unlockType = "email",
                   !.detached = TRUE]

\* fetch, response.json(), the status check, then (all without a further
\* await) the unlockUser call, revalidatePath and the return.
unlockGeneration_fetch(p) ==
  /\ At(p, "unlockGeneration", "fetch")
  /\ \E r \in Responses :
       LET c == [calls[p] EXCEPT !.resp = RespKind(r)]
       IN  IF responseFails(r)
           THEN /\ calls' = [calls EXCEPT ![p] = IdleCall]
                /\ last' = Done(c, RetFailure(responseError(r)))
           ELSE /\ calls' = [calls EXCEPT ![p] = IdleCall,
                                          ![Child(p)] = detachedUnlockUser(c.username)]
                /\ last' = Done([c EXCEPT !.revalidated = Path(c.username)], RetSuccess)
  /\ UNCHANGED <<rows, ncalls, exhausted>>

----------------------------------------------------------------------------
\* updateUser, called by a client with a record of its own making

\* Records a client passes: no username, a stored username as stored, the
\* same in another case, and a username nobody holds.
UpdateInputs ==
  {[NewUser([username |-> u]) EXCEPT !.unlocked = TRUE, !.unlockType = "free"] :
     u \in {<<>>, <<"A">>, <<"a">>, <<"c">>}}

CallUpdateUser(p) ==
  /\ ncalls < MaxCalls
  /\ Free(p)
  /\ \A q \in 1..(p - 1) : ~Free(q)
  /\ \E user \in UpdateInputs :
       calls' = [calls EXCEPT
                   ![p] = [IdleCall EXCEPT !.op = "updateUser", !.pc = "update",
                                           !.username = user.username,
                                           !.user = <<user>>],
                   ![Child(p)] = IdleCall]
  /\ ncalls' = ncalls + 1
  /\ UNCHANGED <<rows, last, exhausted>>

\* if (!user.username) throw ...; await db.update(users).set(user).where(...)
updateUser_update(t) ==
  /\ At(t, "updateUser", "update")
  /\ IF updateUserThrows(calls[t].user[1])
     THEN /\ Resume(t, Done(calls[t], RetThrow("Username is required for updating a user")))
          /\ UNCHANGED rows
     ELSE /\ rows' = updateUser(calls[t].user[1])
          /\ Resume(t, Done([calls[t] EXCEPT !.writes = @ + 1], RetUndefined))
  /\ UNCHANGED <<ncalls, exhausted>>

----------------------------------------------------------------------------
Next ==
  \/ \E p \in Procs : CallHandleNewUsername(p)
  \/ \E p \in Procs : CallProcessScrapedUser(p)
  \/ \E p \in Procs : CallUnlockUser(p)
  \/ \E p \in Procs : CallUnlockGeneration(p)
  \/ \E t \in Procs : handleNewUsername_getUser(t)
  \/ \E t \in Procs : handleNewUsername_scrapeProfile(t)
  \/ \E t \in Procs : handleNewUsername_insertUser(t)
  \/ \E t \in Procs : processScrapedUser_getUser(t)
  \/ \E t \in Procs : processScrapedUser_updateUser(t)
  \/ \E t \in Procs : processScrapedUser_scrapeTweets(t)
  \/ \E t \in Procs : processScrapedUser_scrapeTweetsAgain(t)
  \/ \E t \in Procs : processScrapedUser_updateUserFinal(t)
  \/ \E t \in Tasks : unlockUser_getUser(t)
  \/ \E t \in Tasks : unlockUser_updateUser(t)
  \/ \E p \in Procs : unlockGeneration_fetch(p)

Spec == Init /\ [][Next]_vars

\* The table as an earlier handleNewUsername has left it: empty, or with
\* one freshly inserted record.
InitSeeded ==
  /\ rows \in {<<>>, <<NewUser([username |-> <<"A">>])>>}
  /\ calls = [t \in Tasks |-> IdleCall]
  /\ last = IdleCall
  /\ ncalls = 0
  /\ exhausted = {}

SpecSeeded == InitSeeded /\ [][Next]_vars

\* Clients that onboard usernames and call updateUser themselves.
NextUpdate ==
  \/ \E p \in Procs : CallHandleNewUsername(p)
  \/ \E t \in Procs : handleNewUsername_getUser(t)
  \/ \E t \in Procs : handleNewUsername_scrapeProfile(t)
  \/ \E t \in Procs : handleNewUsername_insertUser(t)
  \/ \E p \in Procs : CallUpdateUser(p)
  \/ \E t \in Procs : updateUser_update(t)

SpecUpdate == Init /\ [][NextUpdate]_vars

----------------------------------------------------------------------------
\* What the properties below speak of.

\* Task t returns in this step; last' is then its call and result.
Returns(t) == calls[t].pc # "idle" /\ calls'[t].pc = "idle"

\* Task t takes this step.
Steps(t) == calls'[t] # calls[t]

\* The store holds a record for username, compared without case.
Present(username) ==
  \E i \in DOMAIN rows : toLowerCase(rows[i].username) = toLowerCase(username)

\* The stored records (of the table rs) with exactly this username.
Named(rs, username) == {i \in DOMAIN rs : rs[i].username = username}

----------------------------------------------------------------------------
\* C1: when processScrapedUser, run on a record whose tweetScrapeStarted was
\* false, returns after both scrape attempts failed, the stored record has
\* tweetScrapeCompleted = false, tweetScrapeStarted = true, a non-null error,
\* and no posts.
C1_DoubleFailurePersisted ==
  [][\A t \in Procs :
       (At(t, "processScrapedUser", "scrapeTweetsAgain") /\ Returns(t)
          /\ last'.attempts = <<Null, Null>>)
       => \A i \in Named(rows', calls[t].user[1].username) :
            /\ ~rows'[i].tweetScrapeCompleted
            /\ rows'[i].tweetScrapeStarted
            /\ rows'[i].error # Null
            /\ rows'[i].tweets = Null]_vars

\* C2: no step of any interleaving of the handlers sets a stored record's
\* unlocked flag back from true to false.
C2_UnlockedMonotonic ==
  [][\A i \in DOMAIN rows : rows[i].unlocked => rows'[i].unlocked]_vars

\* C3: a handleNewUsername call that found no record for its username returns
\* in exactly one of two ways: it has inserted exactly one record, with
\* profileScraped = true and error = null, and returns no error; or it has
\* inserted nothing and returns a non-null error.
C3_AcquisitionOutcome ==
  [][\A t \in Procs :
       (calls[t].op = "handleNewUsername" /\ calls[t].pc # "getUser" /\ Returns(t))
       => LET n == Len(rows)
              created == /\ Len(rows') = n + 1
                         /\ SubSeq(rows', 1, n) = rows
                         /\ rows'[n + 1].profileScraped
                         /\ rows'[n + 1].error = Null
                         /\ toLowerCase(rows'[n + 1].username) = toLowerCase(calls[t].username)
                         /\ last'.writes = 1
                         /\ last'.ret.kind = "redirect"
                         /\ last'.ret.error = Null
              failed ==  /\ rows' = rows
                         /\ last'.writes = 0
                         /\ last'.ret.kind = "value"
                         /\ last'.ret.error # Null
          IN  (created \/ failed) /\ ~(created /\ failed)]_vars

\* C3's case: an acquisition has created a record, and a later one for
\* another username has returned an error and written nothing.
C3_Witness ==
  /\ last.op = "handleNewUsername"
  /\ last.ret.kind = "value" /\ last.ret.error # Null /\ last.writes = 0
  /\ \E i \in DOMAIN rows : rows[i].profileScraped /\ rows[i].error = Null
  /\ ~Present(last.username)

\* C4: handleNewUsername for a username the store holds (compared without
\* case) returns at once with a redirect to that username's page, having
\* made no scraper call and no store write; the store is unchanged.
C4_ExistingIsLookupOnly ==
  [][\A t \in Procs :
       (At(t, "handleNewUsername", "getUser") /\ Present(calls[t].username) /\ Steps(t))
       => /\ Returns(t)
          /\ rows' = rows
          /\ last'.ret.kind = "redirect"
          /\ last'.ret.path = Path(calls[t].username)
          /\ last'.scrapes = 0
          /\ last'.writes = 0]_vars

\* C4's case: the username was typed in another case than the stored one.
C4_Witness ==
  /\ last.op = "handleNewUsername" /\ last.ret.kind = "redirect"
  /\ last.scrapes = 0 /\ last.writes = 0
  /\ Present(last.username)
  /\ Named(rows, last.username) = {}

\* C5: when processScrapedUser returns after a failed first attempt and a
\* successful second one, the stored record has tweetScrapeCompleted = true
\* and the posts of the second attempt, and the call returns those posts.
C5_RetrySucceeds ==
  [][\A t \in Procs :
       (calls[t].op = "processScrapedUser" /\ Returns(t)
          /\ Len(last'.attempts) = 2
          /\ last'.attempts[1] = Null /\ last'.attempts[2] # Null)
       => /\ last'.ret.kind = "value"
          /\ last'.ret.tweets = last'.attempts[2]
          /\ Named(rows', calls[t].user[1].username) # {}
          /\ \A i \in Named(rows', calls[t].user[1].username) :
               /\ rows'[i].tweetScrapeCompleted
               /\ rows'[i].tweets = last'.attempts[2]]_vars

C5_Witness ==
  /\ last.op = "processScrapedUser"
  /\ last.attempts = <<Null, "tweetsY">>
  /\ last.ret.tweets = "tweetsY"
  /\ \E i \in DOMAIN rows : rows[i].tweetScrapeCompleted /\ rows[i].tweets = "tweetsY"

\* C6: when unlockGeneration, after an OK answer of the email vendor, hands
\* the page to revalidatePath and returns success, the unlock write
\* (unlocked = true, unlockType = 'email') is already in the store.
C6_UnlockBeforeRevalidate ==
  [][\A p \in Procs :
       (At(p, "unlockGeneration", "fetch") /\ Returns(p) /\ last'.resp = "ok"
          /\ Present(replaceSlash(calls[p].username)))
       => /\ last'.revalidated # <<>>
          /\ last'.ret.success
          /\ \A i \in DOMAIN rows' :
               toLowerCase(rows'[i].username) = toLowerCase(replaceSlash(calls[p].username))
               => rows'[i].unlocked /\ rows'[i].unlockType = "email"]_vars

\* C7: no exported handler lets an exception reach its caller: every call
\* returns a value (or redirects).
C7_NoHandlerThrows == last.ret.kind # "throw"

\* C8: unlockUser for a username the store holds goes on to its write, and
\* when it returns the record is unlocked with the channel of this call,
\* whatever channel an earlier call had recorded.
C8_LastWriteWins ==
  [][\A t \in Tasks :
       /\ (At(t, "unlockUser", "getUser") /\ Present(calls[t].username) /\ Steps(t))
          => calls'[t].pc = "updateUser"
       /\ (At(t, "unlockUser", "updateUser") /\ Returns(t))
          => /\ last'.ret.kind = "value" /\ last'.ret.success
             /\ Named(rows', calls[t].user[1].username) # {}
             /\ \A i \in Named(rows', calls[t].user[1].username) :
                  rows'[i].unlocked /\ rows'[i].unlockType = calls[t].unlockType]_vars

\* C8's case: a second call, with another channel than the one it found
\* recorded, has returned, and the record holds the second channel.
C8_Witness ==
  /\ last.op = "unlockUser" /\ last.ret.success
  /\ last.prior # Null /\ last.prior # last.unlockType
  /\ \E i \in DOMAIN rows :
       /\ toLowerCase(rows[i].username) = toLowerCase(last.username)
       /\ rows[i].unlocked /\ rows[i].unlockType = last.unlockType

\* C9: unlockUser for a username the store does not hold returns a failure
\* with the not-found error and writes nothing: the store is unchanged.
C9_UnlockUnknown ==
  [][\A t \in Tasks :
       (At(t, "unlockUser", "getUser") /\ ~Present(calls[t].username) /\ Steps(t))
       => /\ Returns(t)
          /\ last'.ret.kind = "value"
          /\ ~last'.ret.success
          /\ last'.ret.error = "User not found"
          /\ last'.writes = 0
          /\ rows' = rows]_vars

C9_Witness ==
  /\ last.op = "unlockUser" /\ last.ret.kind = "value" /\ ~last.ret.success
  /\ last.ret.error = "User not found"
  /\ ~Present(last.username)
  /\ rows # <<>>

\* C10: when the email vendor answers with a non-OK status or the request
\* throws, unlockGeneration returns success = false with an error message,
\* starts no unlockUser, revalidates nothing and leaves the store unchanged.
C10_VendorFailure ==
  [][\A p \in Procs :
       (At(p, "unlockGeneration", "fetch") /\ Returns(p)
          /\ last'.resp \in {"nonok", "throws"})
       => /\ last'.ret.kind = "value"
          /\ ~last'.ret.success
          /\ last'.ret.error # Null
          /\ calls'[Child(p)] = IdleCall
          /\ last'.revalidated = <<>>
          /\ rows' = rows]_vars

C10_Witness ==
  /\ last.op = "unlockGeneration" /\ last.resp = "nonok"
  /\ ~last.ret.success /\ last.ret.error = "Bad Request"
  /\ Present(replaceSlash(last.username))
  /\ \A i \in DOMAIN rows : ~rows[i].unlocked
\* C11: updateUser with an empty username throws and writes nothing;
\* updateUser with a username that no stored record has (as spelled)
\* returns without error and leaves the store as it was: nothing is
\* inserted.
C11_UpdateGuardAndNoUpsert ==
  [][\A t \in Procs :
       (At(t, "updateUser", "update") /\ Steps(t))
       => /\ Returns(t)
          /\ calls[t].user[1].username = <<>>
             => /\ last'.ret.kind = "throw"
                /\ last'.writes = 0
                /\ rows' = rows
          /\ (calls[t].user[1].username # <<>>
                /\ Named(rows, calls[t].user[1].username) = {})
             => /\ last'.ret.kind = "undefined"
                /\ rows' = rows]_vars

\* C11's case: the store holds the account under another spelling, and an
\* update for the username as typed has returned without touching it.
C11_Witness ==
  /\ last.op = "updateUser" /\ last.ret.kind = "undefined"
  /\ last.username # <<>>
  /\ Named(rows, last.username) = {}
  /\ Present(last.username)
  /\ \A i \in DOMAIN rows : ~rows[i].unlocked
\* A tweet scrape of task t is in progress: the call to scrapeTweets is made
\* in the step that reaches one of these positions and answered in the next
\* step of t.
Scraping(t) ==
  calls[t].op = "processScrapedUser" /\ calls[t].pc \in {"scrapeTweets", "scrapeTweetsAgain"}

\* C12: a processScrapedUser run issues its first scrapeTweets call only in
\* the step in which its updateUser write of tweetScrapeStarted = true has
\* been applied to the stored record, and its second only after the first.
C12_StartedBeforeScrape ==
  [][\A t \in Procs :
       /\ (calls'[t].op = "processScrapedUser" /\ calls'[t].pc = "scrapeTweets" /\ Steps(t))
          => /\ At(t, "processScrapedUser", "updateUser")
             /\ calls'[t].writes = 1
             /\ calls'[t].scrapes = 0
             /\ Named(rows', calls[t].user[1].username) # {}
             /\ \A i \in Named(rows', calls[t].user[1].username) :
                  rows'[i].tweetScrapeStarted
       /\ (calls'[t].op = "processScrapedUser" /\ calls'[t].pc = "scrapeTweetsAgain" /\ Steps(t))
          => /\ At(t, "processScrapedUser", "scrapeTweets")
             /\ calls[t].writes = 1]_vars

\* C12's case: a scrape is in progress and the record is stored as started.
C12_Witness ==
  \E t \in Procs :
    /\ At(t, "processScrapedUser", "scrapeTweets")
    /\ calls[t].writes = 1
    /\ \E i \in DOMAIN rows :
         rows[i].username = calls[t].user[1].username /\ rows[i].tweetScrapeStarted

\* C13: one processScrapedUser call makes at most two scrapeTweets calls,
\* counting the one in progress; the second is in progress only after the
\* first has been answered without tweets; a call that made two had its
\* first one fail.
C13_RetryBound ==
  /\ \A t \in Procs :
       calls[t].op = "processScrapedUser"
       => /\ calls[t].scrapes + (IF Scraping(t) THEN 1 ELSE 0) <= 2
          /\ Len(calls[t].attempts) = calls[t].scrapes
          /\ calls[t].pc = "scrapeTweets" => calls[t].scrapes = 0
          /\ calls[t].pc = "scrapeTweetsAgain" => calls[t].attempts = <<Null>>
          /\ calls[t].scrapes = 2 => calls[t].attempts[1] = Null
  /\ last.op = "processScrapedUser"
       => /\ last.scrapes <= 2
          /\ Len(last.attempts) = last.scrapes
          /\ last.scrapes = 2 => last.attempts[1] = Null

\* C13's case: the second call is in progress, after the first failed.
C13_Witness ==
  \E t \in Procs :
    /\ At(t, "processScrapedUser", "scrapeTweetsAgain")
    /\ calls[t].scrapes = 1 /\ calls[t].attempts = <<Null>>
\* C14: processScrapedUser for a record stored with tweetScrapeStarted = true
\* returns at once, without a scrape and without a store write; and a call
\* invoked after a double failure has left a record started and not
\* completed never issues a scrape for that record.
C14_StartedGuard ==
  [][\A t \in Procs :
       /\ (At(t, "processScrapedUser", "getUser") /\ Steps(t)
             /\ Present(calls[t].username)
             /\ \A i \in DOMAIN rows :
                  toLowerCase(rows[i].username) = toLowerCase(calls[t].username)
                  => rows[i].tweetScrapeStarted)
          => /\ Returns(t)
             /\ rows' = rows
             /\ last'.scrapes = 0
             /\ last'.writes = 0
       /\ (calls'[t].op = "processScrapedUser" /\ calls'[t].pc = "scrapeTweets" /\ Steps(t))
          => calls[t].user[1].username \notin calls[t].after]_vars
\* C15: the started guard is not atomic: the step in which processScrapedUser
\* reads a record with tweetScrapeStarted = false writes nothing and goes on
\* to the write, whatever other calls are under way, and the write step goes
\* on to the scrape without looking again; so two scrapes for one username
\* can be in progress at once.
C15_GuardNotAtomic ==
  [][\A t \in Procs :
       /\ (At(t, "processScrapedUser", "getUser") /\ Steps(t)
             /\ Present(calls[t].username)
             /\ \A i \in DOMAIN rows :
                  toLowerCase(rows[i].username) = toLowerCase(calls[t].username)
                  => ~rows[i].tweetScrapeStarted)
          => /\ calls'[t].pc = "updateUser"
             /\ rows' = rows
       /\ (At(t, "processScrapedUser", "updateUser") /\ Steps(t))
          => calls'[t].pc = "scrapeTweets"]_vars

\* C15's case: two calls have a scrape for the same username in progress.
C15_Witness ==
  \E t1, t2 \in Procs :
    /\ t1 # t2
    /\ Scraping(t1) /\ Scraping(t2)
    /\ calls[t1].user[1].username = calls[t2].user[1].username

\* C16: handleNewUsername checks for the record in one step and inserts in a
\* later one: the check and the profile scrape leave the store alone, and
\* the insert step appends its record whatever the store holds by then; so
\* two calls for one absent username can both reach insertUser.
C16_CheckThenInsert ==
  [][\A t \in Procs :
       /\ (calls[t].op = "handleNewUsername" /\ calls[t].pc \in {"getUser", "scrapeProfile"}
             /\ Steps(t))
          => rows' = rows
       /\ (At(t, "handleNewUsername", "getUser") /\ ~Present(calls[t].username) /\ Steps(t))
          => calls'[t].pc = "scrapeProfile"
       /\ (At(t, "handleNewUsername", "insertUser") /\ Steps(t))
          => /\ rows' = Append(rows, NewUser(calls[t].data[1]))
             /\ Returns(t)]_vars

\* C16's case: two calls have passed the check for the same username, which
\* the store does not hold, and both stand before their insert.
C16_Witness ==
  \E t1, t2 \in Procs :
    /\ t1 # t2
    /\ At(t1, "handleNewUsername", "insertUser")
    /\ At(t2, "handleNewUsername", "insertUser")
    /\ calls[t1].data[1].username = calls[t2].data[1].username
    /\ ~Present(calls[t1].data[1].username)

\* Both inserts done: the store holds two records for one username.
C16_TwoRecords ==
  \E i, j \in DOMAIN rows : i # j /\ rows[i].username = rows[j].username
\* C17: once a stored record has tweetScrapeCompleted = true with its posts,
\* no later store write sets tweetScrapeCompleted back to false or replaces
\* the posts.
C17_TweetsNeverLost ==
  [][\A i \in DOMAIN rows :
       (rows[i].tweetScrapeCompleted /\ rows[i].tweets # Null)
       => /\ rows'[i].tweetScrapeCompleted
          /\ rows'[i].tweets = rows[i].tweets]_vars

\* C18: when unlockGeneration has returned success = true, the store holds a
\* record for the username it was called with.
C18_SuccessMeansRecord ==
  (last.op = "unlockGeneration" /\ last.ret.success)
  => Present(replaceSlash(last.username))

\* C19: every stored record with tweetScrapeCompleted = true has
\* tweetScrapeStarted = true.
C19_CompletedImpliesStarted ==
  \A i \in DOMAIN rows : rows[i].tweetScrapeCompleted => rows[i].tweetScrapeStarted

\* C19's case: a record completed by processScrapedUser that an unlockUser
\* write, made from its own snapshot, has gone over.
C19_Witness ==
  /\ last.op = "unlockUser" /\ last.ret.success
  /\ \E i \in DOMAIN rows :
       /\ toLowerCase(rows[i].username) = toLowerCase(last.username)
       /\ rows[i].tweetScrapeCompleted /\ rows[i].tweetScrapeStarted
       /\ rows[i].tweets # Null
       /\ rows[i].unlocked
====
